---- MODULE Spec2Model ----
(***************************************************************************)
(* A model of the EzEnv SDK client (src/src/client.ts, src/src/errors.ts). *)
(* One client object, its cache, the get() calls made on it and the        *)
(* network they talk to.  A get() call is an async function: it runs to    *)
(* its first await (the fetch), resumes when the fetch settles, runs to    *)
(* its second await (response.json()) and resumes when that settles.       *)
(* Between those points other calls, timers and clearCache() interleave.   *)
(* A load() call is a get() call followed, once the get() has settled, by   *)
(* the application of the returned bundle to process.env.                  *)
(***************************************************************************)
EXTENDS Integers, Sequences, FiniteSets, TLC

VARIABLES
    ctor,          \* the constructor call: [state, apiKey, baseUrl, error, given]
    cache,         \* EzEnv.cache: cache key -> cached value
    calls,         \* the get() calls started so far, in start order
    requests,      \* the requests handed to fetch(), in order
    lastSize,      \* the value getCacheSize() returned when the last step was that call, else None
    lastFetched,   \* history: cache key -> value of the latest successful fetch since the last clearCache()
    writer,        \* history: cache key -> index of the call whose fetch the entry holds
    pendingFirst,  \* history: pairs fetched before a clearCache() for which no get has started since
    env,           \* process.env: variable name -> value
    loads,         \* the load() calls: index of the call's get() in calls -> [override, state, error, before, after]
    boot           \* the call of loadFromFile() or fromEnv(): [fn, state, error, source, before]

vars == <<ctor, cache, calls, requests, lastSize, lastFetched, writer, pendingFirst,
          env, loads, boot>>

-----------------------------------------------------------------------------
(* JavaScript values *)

\* An optional value: <<>> is undefined, <<v>> is v.
None == << >>
Some(v) == <<v>>

\* The value `undefined` where a secrets mapping is expected.
Undefined == [undefined |-> TRUE]

\* `x || d` for an optional string: undefined and "" are falsy.
OrDefault(opt, d) == IF opt = None \/ opt[1] = "" THEN d ELSE opt[1]

\* String.prototype.startsWith
StartsWith(s, prefix) ==
    /\ Len(s) >= Len(prefix)
    /\ SubSeq(s, 1, Len(prefix)) = prefix

EmptyMap == [k \in {} |-> Undefined]

\* Map.prototype.set
MapSet(m, k, v) == [x \in DOMAIN m \cup {k} |-> IF x = k THEN v ELSE m[x]]

-----------------------------------------------------------------------------
(* Errors: src/src/errors.ts *)

EzEnvErrorClasses ==
    {"EzEnvError", "NetworkError", "AuthError", "NotFoundError", "ValidationError"}

\* error instanceof EzEnvError
IsEzEnvError(err) == err.class \in EzEnvErrorClasses

\* new <Class>(message): every constructor sets name to the class name
NewError(class, message) == [class |-> class, name |-> class, message |-> message]

\* Errors raised by the runtime, not by the SDK.
AbortError == [class |-> "DOMException", name |-> "AbortError",
               message |-> "This operation was aborted"]
SyntaxError == [class |-> "SyntaxError", name |-> "SyntaxError",
                message |-> "Unexpected token < in JSON at position 0"]
NullTypeError == [class |-> "TypeError", name |-> "TypeError",
                  message |-> "Cannot read properties of null"]

-----------------------------------------------------------------------------
(* Constructor: client.ts 9-20 *)

DefaultBaseUrl == "https://ezenv.dev"

CtorInit == [state |-> "none", apiKey |-> "", baseUrl |-> "", error |-> None,
             given |-> "", givenUrl |-> None]

\* CtorCheck without the prefix test of line 14.
CtorCheck_NonEmptyOnly(apiKey) ==
    IF apiKey = "" THEN Some(NewError("ValidationError", "API key is required"))
    ELSE None

\* The error the constructor throws for a credential, None when it accepts it.
CtorCheck(apiKey) ==
    IF apiKey = "" THEN Some(NewError("ValidationError", "API key is required"))
    ELSE IF ~StartsWith(apiKey, "ezenv_")
         THEN Some(NewError("ValidationError", "Invalid API key format"))
         ELSE None

\* new EzEnv({ apiKey, baseUrl }): the object constructed, or the error thrown;
\* given and givenUrl remember the arguments.
NewClient(apiKey, baseUrl) ==
    LET err == CtorCheck(apiKey) IN
      IF err # None
      THEN [state |-> "thrown", apiKey |-> "", baseUrl |-> "",
            error |-> err, given |-> apiKey, givenUrl |-> baseUrl]
      ELSE [state |-> "ok", apiKey |-> apiKey,
            baseUrl |-> OrDefault(baseUrl, DefaultBaseUrl),
            error |-> None, given |-> apiKey, givenUrl |-> baseUrl]

Construct(apiKey, baseUrl) ==
    /\ ctor.state # "ok"
    /\ ctor' = NewClient(apiKey, baseUrl)
    /\ lastSize' = None
    /\ UNCHANGED <<cache, calls, requests, lastFetched, writer, pendingFirst, env, loads, boot>>

-----------------------------------------------------------------------------
(* get(): client.ts 25-111 *)

DefaultTimeout == 30000

\* const cacheKey = `${projectName}:${environmentName}`
CacheKey(project, environment) == project \o ":" \o environment

\* ValidateInputs without the environment test of line 35.
ValidateInputs_ProjectOnly(project, environment) ==
    IF project = "" THEN Some(NewError("ValidationError", "Project name is required"))
    ELSE None

\* The validation of lines 31-37: the error thrown, None when the inputs pass.
ValidateInputs(project, environment) ==
    IF project = "" THEN Some(NewError("ValidationError", "Project name is required"))
    ELSE IF environment = ""
         THEN Some(NewError("ValidationError", "Environment name is required"))
         ELSE None

\* CacheHit that reads the cache whatever noCache says.
CacheHit_IgnoresNoCache(noCache, key) == key \in DOMAIN cache

\* Line 42: !options?.noCache && this.cache.has(cacheKey)
CacheHit(noCache, key) == ~noCache /\ key \in DOMAIN cache

\* Line 51: options?.timeout || 30000
TimeoutDelay(timeout) ==
    IF timeout = None \/ timeout[1] = 0 THEN DefaultTimeout ELSE timeout[1]

\* response.ok
ResponseOk(status) == status \in 200..299

NotFoundMessage(project, environment) ==
    "Project \"" \o project \o "\" or environment \"" \o environment \o "\" not found"

\* Lines 70-88: the error thrown for a parsed failure payload.
HttpError(status, error, project, environment) ==
    IF status = 401 THEN NewError("AuthError", OrDefault(error, "Invalid API key"))
    ELSE IF status = 403 THEN NewError("AuthError", OrDefault(error, "Permission denied"))
    ELSE IF status = 404
         THEN NewError("NotFoundError",
                       OrDefault(error, NotFoundMessage(project, environment)))
         ELSE NewError("EzEnvError", OrDefault(error, "Failed to fetch secrets"))

\* CatchError without the AbortError branch of lines 101-103.
CatchError_NoAbortBranch(err) ==
    IF IsEzEnvError(err) THEN err
    ELSE IF err.message = "Failed to fetch"
         THEN NewError("NetworkError", "Failed to connect to EzEnv API")
         ELSE NewError("NetworkError",
                       IF err.message = "" THEN "Network error occurred" ELSE err.message)

\* Lines 96-110: what the catch block throws for an error caught in the try.
CatchError(err) ==
    IF IsEzEnvError(err) THEN err
    ELSE IF err.name = "AbortError" THEN NewError("NetworkError", "Request timeout")
    ELSE IF err.message = "Failed to fetch"
         THEN NewError("NetworkError", "Failed to connect to EzEnv API")
         ELSE NewError("NetworkError",
                       IF err.message = "" THEN "Network error occurred" ELSE err.message)

\* CacheStore that keeps an entry already present.
CacheStore_KeepsFirst(c, key, secrets) ==
    IF key \in DOMAIN c THEN c ELSE MapSet(c, key, secrets)

\* CacheStore that writes nothing.
CacheStore_Skips(c, key, secrets) == c

\* Line 93: this.cache.set(cacheKey, secrets)
CacheStore(c, key, secrets) == MapSet(c, key, secrets)

NoBody == [json |-> "none", secrets |-> None, error |-> None]
NoError == [class |-> "", name |-> "", message |-> ""]

\* The outcome of a call: a returned value or a thrown error.
Returned(v) == [kind |-> "ok", error |-> NoError, value |-> Some(v)]
Thrown(err) == [kind |-> err.class, error |-> err, value |-> None]
Pending == [kind |-> "pending", error |-> NoError, value |-> None]

\* The values returned by the successful gets for a pair since the last clearCache().
OkResults(project, environment) ==
    { calls[i].result.value[1] :
        i \in { j \in DOMAIN calls : /\ calls[j].live
                                     /\ calls[j].project = project
                                     /\ calls[j].environment = environment } }

\* RequestOf that posts to the default endpoint whatever the client's baseUrl is.
RequestOf_DefaultUrl(client, project, environment) ==
    [method |-> "POST",
     url |-> DefaultBaseUrl \o "/api/v1/secrets",
     authorization |-> "Bearer " \o client.apiKey,
     contentType |-> "application/json",
     projectName |-> project, environmentName |-> environment]

\* Lines 53-64: the request a get() on `client` hands to fetch().
RequestOf(client, project, environment) ==
    [method |-> "POST",
     url |-> client.baseUrl \o "/api/v1/secrets",
     authorization |-> "Bearer " \o client.apiKey,
     contentType |-> "application/json",
     projectName |-> project, environmentName |-> environment]

Request(project, environment) == RequestOf(ctor, project, environment)

\* The body of get(projectName, environmentName, options) on the object `client`,
\* up to its first await.
GetCallAs(client, project, environment, noCache, timeout) ==
    /\ client.state = "ok"
    /\ LET invalid == ValidateInputs(project, environment)
           key == CacheKey(project, environment)
           hit == invalid = None /\ CacheHit(noCache, key)
           send == invalid = None /\ ~hit
           call == [project |-> project, environment |-> environment,
                    noCache |-> noCache, timeout |-> timeout,
                    pc |-> IF send THEN "fetch" ELSE "done",
                    timer |-> IF send THEN "armed" ELSE "unset",
                    delay |-> IF send THEN TimeoutDelay(timeout) ELSE 0,
                    status |-> 0, body |-> NoBody,
                    result |-> IF invalid # None THEN Thrown(invalid[1])
                               ELSE IF hit THEN Returned(cache[key])
                               ELSE Pending,
                    cause |-> IF invalid # None THEN "validation"
                              ELSE IF hit THEN "cache" ELSE "",
                    hadEntry |-> key \in DOMAIN cache,
                    live |-> hit]
       IN /\ calls' = Append(calls, call)
          /\ requests' = IF send
                         THEN Append(requests, RequestOf(client, project, environment))
                         ELSE requests
          /\ pendingFirst' = IF invalid = None
                             THEN pendingFirst \ {<<project, environment>>}
                             ELSE pendingFirst
    /\ lastSize' = None
    /\ UNCHANGED <<cache, lastFetched, writer, env>>

\* The body of get() on the client of the model.
GetCall(project, environment, noCache, timeout) ==
    /\ GetCallAs(ctor, project, environment, noCache, timeout)
    /\ UNCHANGED <<ctor, boot>>

\* get(projectName, environmentName, options) called by the program.
Get(project, environment, noCache, timeout) ==
    /\ GetCall(project, environment, noCache, timeout)
    /\ UNCHANGED loads

\* Line 53 resolves: the response's status line and headers arrived; line 66 clears
\* the timer; line 68 starts reading the body and awaits it.
FetchResolves(i, status) ==
    /\ i \in DOMAIN calls
    /\ calls[i].pc = "fetch"
    /\ calls[i].timer = "armed"
    /\ calls' = [calls EXCEPT ![i].pc = "json", ![i].timer = "cleared",
                              ![i].status = status]
    /\ lastSize' = None
    /\ UNCHANGED <<ctor, cache, requests, lastFetched, writer, pendingFirst, env, loads, boot>>

\* FetchRejects that drops the entry of the failed call's key from the cache.
FetchRejects_Evicts(i, err) ==
    /\ i \in DOMAIN calls
    /\ calls[i].pc = "fetch"
    /\ calls[i].timer = "armed"
    /\ calls' = [calls EXCEPT ![i].pc = "done",
                              ![i].result = Thrown(CatchError(err)),
                              ![i].cause = "transport"]
    /\ cache' = [k \in DOMAIN cache \ {CacheKey(calls[i].project, calls[i].environment)}
                   |-> cache[k]]
    /\ lastSize' = None
    /\ UNCHANGED <<ctor, requests, lastFetched, writer, pendingFirst, env, loads, boot>>

\* Line 53 rejects with a transport error; the catch block maps it.  Line 66 is skipped.
FetchRejects(i, err) ==
    /\ i \in DOMAIN calls
    /\ calls[i].pc = "fetch"
    /\ calls[i].timer = "armed"
    /\ calls' = [calls EXCEPT ![i].pc = "done",
                              ![i].result = Thrown(CatchError(err)),
                              ![i].cause = "transport"]
    /\ lastSize' = None
    /\ UNCHANGED <<ctor, cache, requests, lastFetched, writer, pendingFirst, env, loads, boot>>

\* TimerFires with one AbortController for the whole client: the abort rejects
\* every fetch that is pending.
TimerFires_AbortsAll(i) ==
    /\ i \in DOMAIN calls
    /\ calls[i].timer = "armed"
    /\ calls' = [j \in DOMAIN calls |->
                   IF calls[j].pc = "fetch"
                   THEN [calls[j] EXCEPT !.pc = "done",
                                         !.timer = IF j = i THEN "fired" ELSE @,
                                         !.result = Thrown(CatchError(AbortError)),
                                         !.cause = "timeout"]
                   ELSE IF j = i THEN [calls[j] EXCEPT !.timer = "fired"]
                   ELSE calls[j]]
    /\ lastSize' = None
    /\ UNCHANGED <<ctor, cache, requests, lastFetched, writer, pendingFirst, env, loads, boot>>

\* The timer of line 49 fires: controller.abort().  A fetch still pending rejects
\* with AbortError; after the call has completed the abort has no effect.
TimerFires(i) ==
    /\ i \in DOMAIN calls
    /\ calls[i].timer = "armed"
    /\ IF calls[i].pc = "fetch"
       THEN calls' = [calls EXCEPT ![i].pc = "done", ![i].timer = "fired",
                                   ![i].result = Thrown(CatchError(AbortError)),
                                   ![i].cause = "timeout"]
       ELSE calls' = [calls EXCEPT ![i].timer = "fired"]
    /\ lastSize' = None
    /\ UNCHANGED <<ctor, cache, requests, lastFetched, writer, pendingFirst, env, loads, boot>>

\* Line 68 settles with the body the server sent: it is parsed (or not) and lines
\* 70-95 run.
JsonSettles(i, body) ==
    /\ i \in DOMAIN calls
    /\ calls[i].pc = "json"
    /\ LET c == calls[i]
           key == CacheKey(c.project, c.environment)
           failed(err) == [calls EXCEPT ![i].pc = "done", ![i].body = body,
                                        ![i].result = Thrown(CatchError(err)),
                                        ![i].cause = "response"]
       IN IF body.json = "invalid"
          THEN calls' = failed(SyntaxError) /\ UNCHANGED <<cache, lastFetched, writer>>
          ELSE IF body.json = "null"
          THEN calls' = failed(NullTypeError) /\ UNCHANGED <<cache, lastFetched, writer>>
          ELSE IF ~ResponseOk(c.status)
          THEN /\ calls' = failed(HttpError(c.status, body.error, c.project,
                                            c.environment))
               /\ UNCHANGED <<cache, lastFetched, writer>>
          ELSE LET secrets == IF body.secrets = None THEN Undefined
                              ELSE body.secrets[1]
               IN /\ cache' = CacheStore(cache, key, secrets)
                  /\ lastFetched' = MapSet(lastFetched, key, secrets)
                  /\ writer' = MapSet(writer, key, i)
                  /\ calls' = [calls EXCEPT ![i].pc = "done", ![i].body = body,
                                            ![i].result = Returned(secrets),
                                            ![i].cause = "response",
                                            ![i].live = TRUE]
    /\ lastSize' = None
    /\ UNCHANGED <<ctor, requests, pendingFirst, env, loads, boot>>

-----------------------------------------------------------------------------
(* clearCache(), getCacheSize(): client.ts 134-143 *)

\* clearCache() that leaves the entries in the cache.
ClearCache_KeepsEntries ==
    /\ ctor.state = "ok"
    /\ cache' = cache
    /\ lastFetched' = EmptyMap
    /\ writer' = EmptyMap
    /\ pendingFirst' = pendingFirst \cup
          { <<calls[j].project, calls[j].environment>> :
              j \in { k \in DOMAIN calls : calls[k].live } }
    /\ calls' = [j \in DOMAIN calls |-> [calls[j] EXCEPT !.live = FALSE]]
    /\ lastSize' = None
    /\ UNCHANGED <<ctor, requests, env, loads, boot>>

\* clearCache(): line 135, this.cache.clear()
ClearCache ==
    /\ ctor.state = "ok"
    /\ cache' = EmptyMap
    /\ lastFetched' = EmptyMap
    /\ writer' = EmptyMap
    /\ pendingFirst' = pendingFirst \cup
          { <<calls[j].project, calls[j].environment>> :
              j \in { k \in DOMAIN calls : calls[k].live } }
    /\ calls' = [j \in DOMAIN calls |-> [calls[j] EXCEPT !.live = FALSE]]
    /\ lastSize' = None
    /\ UNCHANGED <<ctor, requests, env, loads, boot>>

\* this.cache.size
CacheSize(c) == Cardinality(DOMAIN c)

GetCacheSize ==
    /\ ctor.state = "ok"
    /\ lastSize' = Some(CacheSize(cache))
    /\ UNCHANGED <<ctor, cache, calls, requests, lastFetched, writer, pendingFirst,
                   env, loads, boot>>

-----------------------------------------------------------------------------
(* load(): client.ts 116-129 *)

\* Lines 123-128: Object.entries(secrets).forEach(...), one entry after the other.
\* process.env[key] !== undefined is: key is a variable of the environment.
RECURSIVE ApplyEntries(_, _, _, _)
ApplyEntries(e, secrets, keys, override) ==
    IF keys = {} THEN e
    ELSE LET key == CHOOSE k \in keys : TRUE
             skip == ~override /\ key \in DOMAIN e
             next == IF skip THEN e ELSE MapSet(e, key, secrets[key])
         IN ApplyEntries(next, secrets, keys \ {key}, override)

\* ApplyToEnv that takes a variable whose value is the empty string for unset.
ApplyToEnv_Truthy(e, secrets, override) ==
    [k \in DOMAIN e \cup DOMAIN secrets |->
        IF k \in DOMAIN secrets /\ (override \/ k \notin DOMAIN e \/ e[k] = "")
        THEN secrets[k] ELSE e[k]]

\* ApplyToEnv that never replaces a variable, whatever override says.
ApplyToEnv_KeepsExisting(e, secrets, override) ==
    ApplyEntries(e, secrets, DOMAIN secrets, FALSE)

\* ApplyToEnv that makes the bundle the whole environment.
ApplyToEnv_Replaces(e, secrets, override) ==
    [k \in DOMAIN secrets |->
        IF ~override /\ k \in DOMAIN e THEN e[k] ELSE secrets[k]]

\* ApplyToEnv that appends the fetched value to the value of an existing variable.
ApplyToEnv_Appends(e, secrets, override) ==
    [k \in DOMAIN e \cup DOMAIN secrets |->
        IF k \notin DOMAIN secrets THEN e[k]
        ELSE IF k \notin DOMAIN e THEN secrets[k]
        ELSE IF override THEN e[k] \o secrets[k] ELSE e[k]]

ApplyToEnv(e, secrets, override) == ApplyEntries(e, secrets, DOMAIN secrets, override)

\* EnvAfter that records the failure of the get() in the environment.
EnvAfter_MarksFailure(e, r, override) ==
    IF r.kind # "ok" THEN MapSet(e, "EZENV_ERROR", r.error.message)
    ELSE IF r.value[1] = Undefined THEN e
    ELSE ApplyToEnv(e, r.value[1], override)

\* process.env after line 121 settled with the outcome r of the get(): a rejection
\* leaves line 123 unreached, Object.entries(undefined) throws before any entry.
EnvAfter(e, r, override) ==
    IF r.kind # "ok" THEN e
    ELSE IF r.value[1] = Undefined THEN e
    ELSE ApplyToEnv(e, r.value[1], override)

\* No call of loadFromFile() or fromEnv() has been made.
NoBoot == [fn |-> "none", state |-> "none", error |-> NoError, source |-> None,
           before |-> EmptyMap]

\* Object.entries(undefined)
EntriesTypeError == [class |-> "TypeError", name |-> "TypeError",
                     message |-> "Cannot convert undefined or null to object"]

\* load(projectName, environmentName, options) up to the await of line 121: it calls
\* get() with its own arguments; `before` remembers the environment at the call,
\* `after` the environment the load left when it settled.
Load(project, environment, noCache, timeout, override) ==
    /\ GetCall(project, environment, noCache, timeout)
    /\ loads' = MapSet(loads, Len(calls) + 1,
                       [override |-> override, state |-> "awaiting",
                        error |-> NoError, before |-> env, after |-> env])

\* The await of line 121 settles: a rejected get() rejects the load with the same
\* error; a returned value is applied to process.env by lines 123-128.
LoadResumes(i) ==
    /\ i \in DOMAIN loads
    /\ loads[i].state = "awaiting"
    /\ calls[i].pc = "done"
    /\ LET r == calls[i].result
           after == EnvAfter(env, r, loads[i].override)
       IN
         /\ loads' = IF r.kind # "ok"
                     THEN [loads EXCEPT ![i].state = "failed", ![i].error = r.error,
                                        ![i].after = after]
                     ELSE IF r.value[1] = Undefined
                     THEN [loads EXCEPT ![i].state = "failed",
                                        ![i].error = EntriesTypeError,
                                        ![i].after = after]
                     ELSE [loads EXCEPT ![i].state = "applied", ![i].after = after]
         /\ env' = after
    /\ lastSize' = None
    /\ UNCHANGED <<ctor, cache, calls, requests, lastFetched, writer, pendingFirst, boot>>

-----------------------------------------------------------------------------
(* parseEnvFile(), loadFromFile(), fromEnv(): the utilities of the SDK *)

\* White space removed by String.prototype.trim
IsSpace(c) == c \in {" ", "\t", "\n", "\r", "\f"}

RECURSIVE TrimStart(_)
TrimStart(s) ==
    IF s # "" /\ IsSpace(SubSeq(s, 1, 1)) THEN TrimStart(SubSeq(s, 2, Len(s))) ELSE s

RECURSIVE TrimEnd(_)
TrimEnd(s) ==
    IF s # "" /\ IsSpace(SubSeq(s, Len(s), Len(s)))
    THEN TrimEnd(SubSeq(s, 1, Len(s) - 1)) ELSE s

\* String.prototype.trim
Trim(s) == TrimEnd(TrimStart(s))

\* String.prototype.indexOf for one character, counted from 1; 0 when absent
RECURSIVE IndexFrom(_, _, _)
IndexFrom(s, c, i) ==
    IF i > Len(s) THEN 0
    ELSE IF SubSeq(s, i, i) = c THEN i ELSE IndexFrom(s, c, i + 1)

\* String.prototype.split for a separator of one character
RECURSIVE Split(_, _)
Split(s, sep) ==
    LET i == IndexFrom(s, sep, 1) IN
      IF i = 0 THEN <<s>>
      ELSE <<SubSeq(s, 1, i - 1)>> \o Split(SubSeq(s, i + 1, Len(s)), sep)

\* Array.prototype.join
RECURSIVE Join(_, _)
Join(parts, sep) ==
    IF parts = << >> THEN ""
    ELSE IF Len(parts) = 1 THEN parts[1]
    ELSE parts[1] \o sep \o Join(Tail(parts), sep)

IsQuote(c) == c \in {"\"", "'"}

\* StripQuotes without the replacement of line 29.
StripQuotes_Keeps(value) == value

\* Line 29: value.replace(/^["']|["']$/g, ''): a quote at the start is removed,
\* and a quote at the end is removed.
StripQuotes(value) ==
    LET head == IF value # "" /\ IsQuote(SubSeq(value, 1, 1))
                THEN SubSeq(value, 2, Len(value)) ELSE value
    IN IF head # "" /\ IsQuote(SubSeq(head, Len(head), Len(head)))
       THEN SubSeq(head, 1, Len(head) - 1) ELSE head

\* Lines 20-31: what one line adds to the config.
ParseLine(config, line) ==
    IF StartsWith(Trim(line), "#") \/ Trim(line) = "" THEN config
    ELSE LET parts == Split(line, "=")
             key == parts[1]
             valueParts == Tail(parts)
         IN IF key # "" /\ Len(valueParts) > 0
            THEN MapSet(config, Trim(key), StripQuotes(Trim(Join(valueParts, "="))))
            ELSE config

RECURSIVE ParseLines(_, _)
ParseLines(config, lines) ==
    IF lines = << >> THEN config
    ELSE ParseLines(ParseLine(config, Head(lines)), Tail(lines))

\* parseEnvFile(content)
ParseEnvFile(content) == ParseLines(EmptyMap, Split(content, "\n"))

\* config.NAME: the value of a field, None when the config does not have it
Field(config, name) == IF name \in DOMAIN config THEN Some(config[name]) ELSE None

\* !value for a value that is undefined or a string
Falsy(opt) == opt = None \/ opt[1] = ""

\* Line 41: join(process.cwd(), '.env.ezenv')
DefaultPath == "/app/.env.ezenv"

\* The message of the error readFileSync throws on a file it may not read
ReadErrorMessage == "EACCES: permission denied"

\* LoadFromFileError without the test of EZENV_ENVIRONMENT of lines 64-66.
LoadFromFileError_NoEnvironmentTest(path, file) ==
    LET config == ParseEnvFile(file.content) IN
      IF ~file.exists
      THEN Some(NewError("ValidationError", ".env.ezenv file not found at " \o path))
      ELSE IF ~file.readable
      THEN Some(NewError("ValidationError",
                         "Failed to read .env.ezenv file: " \o ReadErrorMessage))
      ELSE IF Falsy(Field(config, "EZENV_API_KEY"))
      THEN Some(NewError("ValidationError", "EZENV_API_KEY not found in .env.ezenv"))
      ELSE IF Falsy(Field(config, "EZENV_PROJECT"))
      THEN Some(NewError("ValidationError", "EZENV_PROJECT not found in .env.ezenv"))
      ELSE None

\* Lines 43-66: the error loadFromFile() throws before it constructs a client,
\* None when the file gives the three required fields.
LoadFromFileError(path, file) ==
    LET config == ParseEnvFile(file.content) IN
      IF ~file.exists
      THEN Some(NewError("ValidationError", ".env.ezenv file not found at " \o path))
      ELSE IF ~file.readable
      THEN Some(NewError("ValidationError",
                         "Failed to read .env.ezenv file: " \o ReadErrorMessage))
      ELSE IF Falsy(Field(config, "EZENV_API_KEY"))
      THEN Some(NewError("ValidationError", "EZENV_API_KEY not found in .env.ezenv"))
      ELSE IF Falsy(Field(config, "EZENV_PROJECT"))
      THEN Some(NewError("ValidationError", "EZENV_PROJECT not found in .env.ezenv"))
      ELSE IF Falsy(Field(config, "EZENV_ENVIRONMENT"))
      THEN Some(NewError("ValidationError",
                         "EZENV_ENVIRONMENT not found in .env.ezenv"))
      ELSE None

\* client.load(projectName, environmentName, options) on the object `client`, up
\* to the await of line 121 of client.ts.
LoadAs(client, project, environment, noCache, timeout, override) ==
    /\ GetCallAs(client, project, environment, noCache, timeout)
    /\ loads' = MapSet(loads, Len(calls) + 1,
                       [override |-> override, state |-> "awaiting",
                        error |-> NoError, before |-> env, after |-> env])

\* FileLoadOptions with override.
FileLoadOptions_Override == [noCache |-> FALSE, timeout |-> None, override |-> TRUE]

\* Line 73: client.load(config.EZENV_PROJECT, config.EZENV_ENVIRONMENT) has no
\* third argument, so load() and get() see no option.
FileLoadOptions == [noCache |-> FALSE, timeout |-> None, override |-> FALSE]

\* loadFromFile(filePath) up to the await of line 73, `file` being what the file
\* system has at the path: it throws before constructing anything, or the
\* constructor throws, or it calls load() on the new client without options.  Its
\* promise then settles as that load() does.  A field the config does not have is
\* undefined, which the constructor and get() treat as they treat "".
LoadFromFile(filePath, file) ==
    /\ boot.fn = "none"
    /\ ctor.state = "none"
    /\ LET path == OrDefault(filePath, DefaultPath)
           config == ParseEnvFile(file.content)
           err == LoadFromFileError(path, file)
           apiKey == OrDefault(Field(config, "EZENV_API_KEY"), "")
           project == OrDefault(Field(config, "EZENV_PROJECT"), "")
           environment == OrDefault(Field(config, "EZENV_ENVIRONMENT"), "")
           client == NewClient(apiKey, Field(config, "EZENV_BASE_URL"))
           called == [fn |-> "loadFromFile", state |-> "loading", error |-> NoError,
                      source |-> Some([path |-> path, file |-> file]), before |-> env]
       IN IF err # None
          THEN /\ boot' = [called EXCEPT !.state = "failed", !.error = err[1]]
               /\ lastSize' = None
               /\ UNCHANGED <<ctor, cache, calls, requests, lastFetched, writer,
                              pendingFirst, env, loads>>
          ELSE IF client.state # "ok"
          THEN /\ boot' = [called EXCEPT !.state = "failed", !.error = client.error[1]]
               /\ ctor' = client
               /\ lastSize' = None
               /\ UNCHANGED <<cache, calls, requests, lastFetched, writer,
                              pendingFirst, env, loads>>
          ELSE /\ boot' = called
               /\ ctor' = client
               /\ LoadAs(client, project, environment, FileLoadOptions.noCache,
                         FileLoadOptions.timeout, FileLoadOptions.override)

\* process.env.NAME
EnvVar(e, name) == IF name \in DOMAIN e THEN Some(e[name]) ELSE None

\* FromEnvClient without the endpoint of EZENV_BASE_URL.
FromEnvClient_DefaultUrl(e) == NewClient(EnvVar(e, "EZENV_API_KEY")[1], None)

\* Line 87: new EzEnv({ apiKey, baseUrl }) with the two variables of process.env
FromEnvClient(e) ==
    NewClient(EnvVar(e, "EZENV_API_KEY")[1], EnvVar(e, "EZENV_BASE_URL"))

\* fromEnv(): lines 79-88.
FromEnv ==
    /\ ctor.state # "ok"
    /\ LET called == [fn |-> "fromEnv", state |-> "returned", error |-> NoError,
                      source |-> None, before |-> env]
       IN IF Falsy(EnvVar(env, "EZENV_API_KEY"))
          THEN /\ boot' = [called EXCEPT
                             !.state = "failed",
                             !.error = NewError("ValidationError",
                                 "EZENV_API_KEY environment variable is not set")]
               /\ UNCHANGED ctor
          ELSE /\ ctor' = FromEnvClient(env)
               /\ boot' = IF ctor'.state = "ok" THEN called
                          ELSE [called EXCEPT !.state = "failed",
                                              !.error = ctor'.error[1]]
    /\ lastSize' = None
    /\ UNCHANGED <<cache, calls, requests, lastFetched, writer, pendingFirst, env, loads>>

\* The host program assigns a variable of process.env before it asks for a client.
SetEnv(name, value) ==
    /\ boot.fn = "none"
    /\ Field(env, name) # Some(value)
    /\ env' = MapSet(env, name, value)
    /\ lastSize' = None
    /\ UNCHANGED <<ctor, cache, calls, requests, lastFetched, writer, pendingFirst,
                   loads, boot>>

-----------------------------------------------------------------------------
(* The environment of the client: what callers pass and what the server sends *)

BundleA == [KEY |-> "value"]
BundleB == [KEY |-> "rotated", NEW_VAR |-> ""]

SecretsBody(b) == [json |-> "object", secrets |-> Some(b), error |-> None]
ErrorBody(e) == [json |-> "object", secrets |-> None, error |-> e]
InvalidBody == [json |-> "invalid", secrets |-> None, error |-> None]
NullBody == [json |-> "null", secrets |-> None, error |-> None]

NoFieldsBody == [json |-> "object", secrets |-> None, error |-> None]

FetchFailed == [class |-> "TypeError", name |-> "TypeError", message |-> "Failed to fetch"]
UndiciFailed == [class |-> "TypeError", name |-> "TypeError", message |-> "fetch failed"]
BlankError == [class |-> "Error", name |-> "Error", message |-> ""]

Constructed(apiKey, baseUrl) ==
    [state |-> "ok", apiKey |-> apiKey, baseUrl |-> OrDefault(baseUrl, DefaultBaseUrl),
     error |-> None, given |-> apiKey, givenUrl |-> baseUrl]

\* The steps of the callers: a new get() with arguments drawn from the given sets.
Callers(pairs, timeouts) ==
    \E pe \in pairs, nc \in BOOLEAN, t \in timeouts : Get(pe[1], pe[2], nc, t)

\* The steps of the server: it answers a call in flight with the status and then
\* the body of a <<status, body>> of `responses`.
Server(responses) ==
    \/ \E i \in DOMAIN calls, r \in responses : FetchResolves(i, r[1])
    \/ \E i \in DOMAIN calls, r \in responses :
          r[1] = calls[i].status /\ JsonSettles(i, r[2])

\* The steps of the transport: the fetch of a call fails with an error of `errors`.
Transport(errors) == \E i \in DOMAIN calls, err \in errors : FetchRejects(i, err)

\* The steps of the timers.
Timers == \E i \in DOMAIN calls : TimerFires(i)

(* Spec: two calls on one constructed client, with every kind of outcome *)

MaxCalls == 2

Pairs == {<<"", "">>, <<"", "c">>, <<"a", "">>, <<"a", "c">>, <<"a", "b:c">>, <<"a:b", "c">>}
Timeouts == {None}
Responses == {<<200, SecretsBody(BundleA)>>, <<200, SecretsBody(BundleB)>>,
              <<500, ErrorBody(Some("boom"))>>, <<500, InvalidBody>>}
TransportErrors == {FetchFailed}

Init ==
    /\ ctor = Constructed("ezenv_k1", None)
    /\ cache = EmptyMap
    /\ calls = << >>
    /\ requests = << >>
    /\ lastFetched = EmptyMap
    /\ writer = EmptyMap
    /\ lastSize = None
    /\ pendingFirst = {}
    /\ env = EmptyMap
    /\ loads = EmptyMap
    /\ boot = NoBoot

Next ==
    \/ Len(calls) < MaxCalls /\ Callers(Pairs, Timeouts)
    \/ Server(Responses)
    \/ Transport(TransportErrors)
    \/ Timers
    \/ ClearCache
    \/ GetCacheSize

Spec == Init /\ [][Next]_vars

(* SpecRefetch: three calls on colliding and distinct pairs; the server answers 200 *)
(* or the call times out                                                           *)

MaxRefetchCalls == 3

RefetchPairs == {<<"a", "c">>, <<"a", "b:c">>, <<"a:b", "c">>}
RefetchResponses == {<<200, SecretsBody(BundleA)>>, <<200, SecretsBody(BundleB)>>}

NextRefetch ==
    \/ Len(calls) < MaxRefetchCalls /\ Callers(RefetchPairs, {None})
    \/ Server(RefetchResponses)
    \/ Timers
    \/ ClearCache
    \/ GetCacheSize

SpecRefetch == Init /\ [][NextRefetch]_vars

(* SpecHttp: construction and a single call, with every credential, argument, *)
(* response and transport failure                                             *)

ApiKeys == {"", "ezenv", "ezenv_", "ezenv_k1", "invalid_key", "my_ezenv_key"}
BaseUrls == {None, Some(""), Some("http://localhost:3000")}
HttpPairs == {<<"", "">>, <<"", "production">>, <<"my-project", "">>,
              <<"my-project", "production">>}
HttpTimeouts == {None, Some(0), Some(5000)}
HttpStatuses == {200, 201, 400, 401, 403, 404, 500}
HttpBodies == {SecretsBody(BundleA), NoFieldsBody, ErrorBody(Some("")),
               ErrorBody(Some("server says no")), InvalidBody, NullBody}
HttpResponses == HttpStatuses \X HttpBodies
HttpTransportErrors == {FetchFailed, UndiciFailed, BlankError}

InitHttp ==
    /\ ctor = CtorInit
    /\ cache = EmptyMap
    /\ calls = << >>
    /\ requests = << >>
    /\ lastSize = None
    /\ lastFetched = EmptyMap
    /\ writer = EmptyMap
    /\ pendingFirst = {}
    /\ env = EmptyMap
    /\ loads = EmptyMap
    /\ boot = NoBoot

NextHttp ==
    \/ \E k \in ApiKeys, u \in BaseUrls : Construct(k, u)
    \/ calls = << >> /\ Callers(HttpPairs, HttpTimeouts)
    \/ Server(HttpResponses)
    \/ Transport(HttpTransportErrors)
    \/ Timers
    \/ ClearCache
    \/ GetCacheSize

SpecHttp == InitHttp /\ [][NextHttp]_vars

(* SpecLoad: get() and load() calls on one constructed client, with a process  *)
(* environment that already has variables or not                               *)

MaxLoadCalls == 2

LoadPairs == {<<"", "c">>, <<"a", "c">>}
LoadEnvs == {EmptyMap, [KEY |-> "original"], [KEY |-> "", PATH |-> "/usr/bin"]}
LoadResponses == {<<200, SecretsBody(BundleA)>>, <<200, SecretsBody(BundleB)>>,
                  <<200, NoFieldsBody>>, <<404, ErrorBody(None)>>}

\* The steps of the callers of load().
LoadCallers(pairs, timeouts) ==
    \E pe \in pairs, nc \in BOOLEAN, t \in timeouts, ov \in BOOLEAN :
        Load(pe[1], pe[2], nc, t, ov)

\* The steps in which a load() resumes after its get() has settled.
Resumes == \E i \in DOMAIN loads : LoadResumes(i)

InitLoad ==
    /\ ctor = Constructed("ezenv_k1", None)
    /\ cache = EmptyMap
    /\ calls = << >>
    /\ requests = << >>
    /\ lastFetched = EmptyMap
    /\ writer = EmptyMap
    /\ lastSize = None
    /\ pendingFirst = {}
    /\ env \in LoadEnvs
    /\ loads = EmptyMap
    /\ boot = NoBoot

NextLoad ==
    \/ Len(calls) < MaxLoadCalls /\ LoadCallers(LoadPairs, {None})
    \/ Len(calls) < MaxLoadCalls /\ Callers(LoadPairs, {None})
    \/ Resumes
    \/ Server(LoadResponses)
    \/ Transport(TransportErrors)
    \/ Timers
    \/ ClearCache

SpecLoad == InitLoad /\ [][NextLoad]_vars

-----------------------------------------------------------------------------
(* SpecFile: no client yet; the host program asks loadFromFile() or fromEnv() *)
(* for one, with every kind of file and of process environment                *)

MaxFileCalls == 1

\* A file the file system has at the path
FileOf(content) == [exists |-> TRUE, readable |-> TRUE, content |-> content]

MissingFile == [exists |-> FALSE, readable |-> FALSE, content |-> ""]

FileMinimal == "EZENV_API_KEY=ezenv_k1\nEZENV_PROJECT=a\nEZENV_ENVIRONMENT=c"
FileQuoted ==
    "# cfg\n\n  # indented\nEZENV_API_KEY=\"ezenv_k1\"\r\nEZENV_PROJECT='a'\n EZENV_ENVIRONMENT = c \nEZENV_BASE_URL=http://localhost:3000\n"
FileOddLines ==
    "EZENV_API_KEY=ezenv_k=1\nNOTE\n\t\nEZENV_PROJECT=a\n=x\nEZENV_ENVIRONMENT=c\nEZENV_BASE_URL="
FileForeignKey == "EZENV_API_KEY=sk_live_1\nEZENV_PROJECT=a\nEZENV_ENVIRONMENT=c"
FileCommentedKey == "#EZENV_API_KEY=ezenv_k1\nEZENV_PROJECT=a\nEZENV_ENVIRONMENT=c"
FileEmptyKey == "EZENV_API_KEY=\"\"\nEZENV_PROJECT=a\nEZENV_ENVIRONMENT=c"
FileNoEquals == "EZENV_API_KEY=ezenv_k1\nEZENV_PROJECT\nEZENV_ENVIRONMENT=c"
FileBlankProject == "EZENV_API_KEY=ezenv_k1\nEZENV_PROJECT=  \nEZENV_ENVIRONMENT=c"
FileNoEnvironment == "EZENV_API_KEY=ezenv_k1\nEZENV_PROJECT=a\n"
FileEmptyEnvironment == "EZENV_API_KEY=ezenv_k1\nEZENV_PROJECT=a\nEZENV_ENVIRONMENT=''"
FileEmpty == ""

FileContents ==
    {FileMinimal, FileQuoted, FileOddLines, FileForeignKey, FileCommentedKey,
     FileEmptyKey, FileNoEquals, FileBlankProject, FileNoEnvironment,
     FileEmptyEnvironment, FileEmpty}

UnreadableFile == [exists |-> TRUE, readable |-> FALSE, content |-> FileMinimal]

Files == {MissingFile, UnreadableFile} \cup {FileOf(c) : c \in FileContents}
FilePaths == {None, Some("/srv/app/.env.ezenv")}

FileEnvs == {EmptyMap, [KEY |-> "original"]}
EnvValues == [EZENV_API_KEY |-> {"", "ezenv_env", "sk_env"},
              EZENV_BASE_URL |-> {"", "http://localhost:3000"}]
FilePairs == {<<"a", "c">>}
FileResponses == {<<200, SecretsBody(BundleA)>>, <<200, SecretsBody(BundleB)>>,
                  <<404, ErrorBody(None)>>}

InitFile ==
    /\ ctor = CtorInit
    /\ cache = EmptyMap
    /\ calls = << >>
    /\ requests = << >>
    /\ lastFetched = EmptyMap
    /\ writer = EmptyMap
    /\ lastSize = None
    /\ pendingFirst = {}
    /\ env \in FileEnvs
    /\ loads = EmptyMap
    /\ boot = NoBoot

NextFile ==
    \/ \E filePath \in FilePaths, file \in Files : LoadFromFile(filePath, file)
    \/ FromEnv
    \/ \E name \in DOMAIN EnvValues : \E value \in EnvValues[name] : SetEnv(name, value)
    \/ Len(calls) < MaxFileCalls /\ LoadCallers(FilePairs, {None})
    \/ Resumes
    \/ Server(FileResponses)
    \/ Transport(TransportErrors)
    \/ Timers

SpecFile == InitFile /\ [][NextFile]_vars

-----------------------------------------------------------------------------
(* Vocabulary of the properties *)

\* This step started a call: the new call is the last of calls'.
Started == Len(calls') = Len(calls) + 1
New == calls'[Len(calls')]
NewKey == CacheKey(New.project, New.environment)

\* The number of requests this step handed to fetch().
Sent == Len(requests') - Len(requests)

ValidCall(c) == c.project # "" /\ c.environment # ""
SamePair(c, d) == c.project = d.project /\ c.environment = d.environment

\* Call i's get() returned a fetched bundle in this step.
Fetched(i) ==
    /\ calls[i].pc = "json"
    /\ calls'[i].pc = "done"
    /\ calls'[i].result.kind = "ok"

-----------------------------------------------------------------------------
(* C1 *)

\* C1 (as claimed): once a get for a pair has succeeded, every later get for the
\* pair without noCache, with no clearCache() in between, issues no request and
\* returns the bundle that earlier get returned.
C1_Original ==
    [][ (Started /\ ~New.noCache /\ OkResults(New.project, New.environment) # {})
          => /\ Sent = 0
             /\ New.pc = "done"
             /\ \A v \in OkResults(New.project, New.environment) :
                   New.result = Returned(v) ]_vars

\* C1 (amended): once a get for a pair has succeeded, every later get for the pair
\* without noCache, with no clearCache() in between, issues no request and returns
\* the bundle of the latest successful fetch under the pair's cache key.
C1_CacheHit ==
    [][ (Started /\ ~New.noCache /\ OkResults(New.project, New.environment) # {})
          => /\ Sent = 0
             /\ New.pc = "done"
             /\ NewKey \in DOMAIN lastFetched
             /\ New.result = Returned(lastFetched[NewKey]) ]_vars

\* A get served from the cache returned another bundle than an earlier successful
\* get for the same pair had fetched.
C1_Witness ==
    \E j \in DOMAIN calls : \E i \in 1..(j - 1) :
        /\ calls[j].cause = "cache"
        /\ SamePair(calls[i], calls[j])
        /\ calls[i].cause = "response" /\ calls[i].live
        /\ calls[i].result # calls[j].result

-----------------------------------------------------------------------------
(* C2 *)

\* C2: a get with noCache for a pair that has a cache entry hands one request to
\* fetch(), and when its fetch succeeds the entry of the pair is the fetched bundle.
C2_NoCacheRefetch ==
    [][ /\ (Started /\ New.noCache /\ ValidCall(New) /\ NewKey \in DOMAIN cache)
            => /\ Sent = 1
               /\ New.pc = "fetch"
               /\ requests'[Len(requests')].projectName = New.project
               /\ requests'[Len(requests')].environmentName = New.environment
        /\ \A i \in DOMAIN calls :
              (calls[i].noCache /\ Fetched(i))
                => LET key == CacheKey(calls[i].project, calls[i].environment)
                   IN /\ key \in DOMAIN cache'
                      /\ Returned(cache'[key]) = calls'[i].result ]_vars

\* A noCache get found an entry, fetched another bundle and the entry now holds it.
C2_Witness ==
    \E j \in DOMAIN calls : \E i \in 1..(j - 1) :
        /\ calls[j].noCache /\ calls[j].hadEntry
        /\ calls[j].cause = "response" /\ calls[j].result.kind = "ok"
        /\ SamePair(calls[i], calls[j])
        /\ calls[i].result.kind = "ok"
        /\ calls[i].result # calls[j].result
        /\ Returned(cache[CacheKey(calls[j].project, calls[j].environment)])
             = calls[j].result

-----------------------------------------------------------------------------
(* C3 *)

\* C3 (as claimed): clearCache() leaves getCacheSize() at 0, and the first get for a
\* pair cached before the clear that starts after it hands a request to fetch().
C3_Original ==
    [][ /\ ClearCache => CacheSize(cache') = 0
        /\ (Started /\ <<New.project, New.environment>> \in pendingFirst)
             => Sent = 1 ]_vars

\* C3 (amended): clearCache() leaves getCacheSize() at 0, and the first get for a
\* pair cached before the clear that starts after it hands a request to fetch()
\* unless a fetch under the same cache key has succeeded since the clear.
C3_ClearForcesRefetch ==
    [][ /\ ClearCache => CacheSize(cache') = 0
        /\ (/\ Started
            /\ <<New.project, New.environment>> \in pendingFirst
            /\ NewKey \notin DOMAIN lastFetched)
             => Sent = 1 ]_vars

\* A pair was fetched, the cache was cleared, and a later get for the pair without
\* noCache is on the network.
C3_Witness ==
    \E j \in DOMAIN calls : \E i \in 1..(j - 1) :
        /\ SamePair(calls[i], calls[j])
        /\ calls[i].result.kind = "ok" /\ ~calls[i].live
        /\ ~calls[j].noCache /\ calls[j].pc = "fetch"
        /\ cache = EmptyMap

-----------------------------------------------------------------------------
(* C4 *)

\* C4 (as claimed): the cache has an entry for a pair exactly when a get for that
\* very pair has succeeded since the last clearCache().
C4_Claim ==
    \A pe \in {q \in Pairs : q[1] # "" /\ q[2] # ""} :
        (CacheKey(pe[1], pe[2]) \in DOMAIN cache) <=> (OkResults(pe[1], pe[2]) # {})

-----------------------------------------------------------------------------
(* C5 *)

\* C5 (as claimed): getCacheSize() returns the number of distinct pairs fetched
\* successfully since the last clearCache(), and changes no state.
C5_Claim ==
    [][ lastSize' # None
          => /\ lastSize'[1] =
                  Cardinality({pe \in Pairs : OkResults(pe[1], pe[2]) # {}})
             /\ UNCHANGED <<ctor, cache, calls, requests>> ]_vars

-----------------------------------------------------------------------------
(* C6 *)

\* C6: a get with an empty project or environment throws ValidationError naming
\* the field (the project first), hands nothing to fetch() and leaves the cache alone.
C6_Validation ==
    [][ (Started /\ ~ValidCall(New))
          => /\ New.pc = "done"
             /\ New.result =
                  Thrown(NewError("ValidationError",
                                  IF New.project = "" THEN "Project name is required"
                                  ELSE "Environment name is required"))
             /\ Sent = 0
             /\ cache' = cache ]_vars

\* Gets with an empty project and with an empty environment have been rejected
\* while the cache held an entry.
C6_Witness ==
    /\ cache # EmptyMap
    /\ \E j \in DOMAIN calls :
          /\ ~ValidCall(calls[j])
          /\ calls[j].result.kind = "ValidationError"
          /\ \E i \in 1..(j - 1) : calls[i].result.kind = "ok"

-----------------------------------------------------------------------------
(* C7 *)

\* The credentials of ApiKeys that are non-empty and start with "ezenv_".
PrefixedKeys == {"ezenv_", "ezenv_k1"}

\* C7: construction succeeds exactly for the non-empty credentials that start with
\* "ezenv_" and throws ValidationError for the others; it hands nothing to fetch()
\* and the constructed client has an empty cache.
C7_Construction ==
    [][ ctor' # ctor
          => /\ ctor'.state = IF ctor'.given \in PrefixedKeys THEN "ok" ELSE "thrown"
             /\ ctor'.state = "ok" => ctor'.apiKey = ctor'.given /\ ctor'.error = None
             /\ ctor'.state = "thrown"
                  => ctor'.error # None /\ ctor'.error[1].class = "ValidationError"
             /\ requests' = << >>
             /\ cache' = EmptyMap ]_vars

\* A client has been constructed from the credential that is just the prefix.
C7_Witness ==
    /\ ctor.state = "ok"
    /\ ctor.given = "ezenv_"
    /\ calls = << >>

-----------------------------------------------------------------------------
(* C8 *)

\* The kind the claim gives a failure status.
KindOfStatus(status) ==
    IF status \in {401, 403} THEN "AuthError"
    ELSE IF status = 404 THEN "NotFoundError"
    ELSE "EzEnvError"

\* A response with a failure status was received by call c, which has completed.
FailureReceived(c) == c.pc = "done" /\ c.status # 0 /\ c.status \notin 200..299

\* C8 (as claimed): for every received response with a failure status the get throws
\* the kind the status alone determines.
C8_Claim ==
    \A i \in DOMAIN calls :
        FailureReceived(calls[i]) => calls[i].result.kind = KindOfStatus(calls[i].status)

-----------------------------------------------------------------------------
(* C9 *)

\* The default message the claim gives a failure status.
DefaultMessage(c) ==
    IF c.status = 401 THEN "Invalid API key"
    ELSE IF c.status = 403 THEN "Permission denied"
    ELSE IF c.status = 404
         THEN "Project \"" \o c.project \o "\" or environment \"" \o c.environment
                 \o "\" not found"
         ELSE "Failed to fetch secrets"

\* C9 (as claimed): the error thrown for a failure response carries the error string
\* of the payload when it has one, else the default message of the status.
C9_Claim ==
    \A i \in DOMAIN calls :
        FailureReceived(calls[i])
          => calls[i].result.error.message =
               IF calls[i].body.error # None /\ calls[i].body.error[1] # ""
               THEN calls[i].body.error[1]
               ELSE DefaultMessage(calls[i])

-----------------------------------------------------------------------------
(* C10 *)

\* C10: a call whose timer fires while its fetch is pending throws NetworkError
\* "Request timeout", and no call that failed in the transport without timing out
\* carries that message.
C10_Timeout ==
    \A i \in DOMAIN calls :
        /\ calls[i].cause = "timeout"
             => calls[i].result = Thrown(NewError("NetworkError", "Request timeout"))
        /\ calls[i].cause = "transport"
             => /\ calls[i].result.kind = "NetworkError"
                /\ calls[i].result.error.message # "Request timeout"
        /\ (calls[i].pc = "done" /\ calls[i].timer = "fired")
             => calls[i].cause \in {"timeout", "transport"}

\* A call has timed out.
C10_Witness ==
    \E i \in DOMAIN calls :
        /\ calls[i].cause = "timeout"
        /\ calls[i].timer = "fired"
        /\ calls[i].pc = "done"

-----------------------------------------------------------------------------
(* C11 *)

\* C11 (as claimed): every call whose fetch failed in the transport without timing
\* out throws NetworkError "Failed to connect to EzEnv API".
C11_Claim ==
    \A i \in DOMAIN calls :
        calls[i].cause = "transport"
          => calls[i].result =
               Thrown(NewError("NetworkError", "Failed to connect to EzEnv API"))

-----------------------------------------------------------------------------
(* C12 *)

\* C12: a get whose 2xx response carries a payload returns the secrets of that
\* payload and the cache entry of its key then holds the same value, whatever the
\* entry held before; and a get served from the cache returns what the entry holds.
C12_SuccessStores ==
    [][ /\ \A i \in DOMAIN calls :
              (/\ calls[i].pc = "json"
               /\ calls'[i].pc = "done"
               /\ ResponseOk(calls[i].status)
               /\ calls'[i].body.json = "object")
                => LET key == CacheKey(calls[i].project, calls[i].environment)
                       secrets == IF calls'[i].body.secrets = None THEN Undefined
                                  ELSE calls'[i].body.secrets[1]
                   IN /\ calls'[i].result = Returned(secrets)
                      /\ key \in DOMAIN cache'
                      /\ cache'[key] = secrets
        /\ (Started /\ New.cause = "cache")
             => /\ NewKey \in DOMAIN cache
                /\ New.result = Returned(cache[NewKey]) ]_vars

\* A fetch replaced the entry of its pair by another bundle, and the get that
\* followed was served that bundle from the cache.
C12_Witness ==
    \E i, j, k \in DOMAIN calls :
        /\ i < j /\ j < k
        /\ SamePair(calls[i], calls[j]) /\ SamePair(calls[j], calls[k])
        /\ calls[i].result.kind = "ok"
        /\ calls[j].hadEntry /\ calls[j].cause = "response"
        /\ calls[j].result.kind = "ok"
        /\ calls[j].result # calls[i].result
        /\ calls[k].cause = "cache"
        /\ calls[k].result = calls[j].result

-----------------------------------------------------------------------------
(* C13 *)

\* Load i applied its bundle in this step.
Applied(i) ==
    /\ i \in DOMAIN loads
    /\ loads[i].state = "awaiting"
    /\ loads'[i].state = "applied"

\* The bundle load i applies.
BundleOf(i) == calls[i].result.value[1]

\* C13 (as claimed): a load without override leaves every variable that exists
\* unchanged, and sets every key of its bundle that was not set before the call
\* to the fetched value.
C13_Original ==
    [][ \A i \in DOMAIN loads :
          (Applied(i) /\ ~loads[i].override)
            => /\ \A k \in DOMAIN env : k \in DOMAIN env' /\ env'[k] = env[k]
               /\ \A k \in DOMAIN BundleOf(i) \ DOMAIN loads[i].before :
                     k \in DOMAIN env' /\ env'[k] = BundleOf(i)[k] ]_vars

\* C13 (amended): a load without override leaves every variable that exists
\* unchanged, and sets every key of its bundle that is not set when the bundle is
\* applied to the fetched value.
C13_NoOverride ==
    [][ \A i \in DOMAIN loads :
          (Applied(i) /\ ~loads[i].override)
            => /\ \A k \in DOMAIN env : k \in DOMAIN env' /\ env'[k] = env[k]
               /\ \A k \in DOMAIN BundleOf(i) \ DOMAIN env :
                     k \in DOMAIN env' /\ env'[k] = BundleOf(i)[k] ]_vars

\* A load without override applied a bundle with a key whose variable existed with
\* the empty string, which it kept, and a key that was unset, which it set.
C13_Witness ==
    \E i \in DOMAIN loads :
        /\ loads[i].state = "applied" /\ ~loads[i].override
        /\ BundleOf(i) = BundleB
        /\ "KEY" \in DOMAIN loads[i].before /\ loads[i].before["KEY"] = ""
        /\ "NEW_VAR" \notin DOMAIN loads[i].before
        /\ env["KEY"] = "" /\ env["NEW_VAR"] = BundleB["NEW_VAR"]

-----------------------------------------------------------------------------
(* C14 *)

\* C14: a load with override sets the variable of every key of its bundle to the
\* fetched value, whether it existed or not: the environment then agrees with the
\* bundle on every key of the bundle.
C14_Override ==
    [][ \A i \in DOMAIN loads :
          (Applied(i) /\ loads[i].override)
            => \A k \in DOMAIN BundleOf(i) :
                  k \in DOMAIN env' /\ env'[k] = BundleOf(i)[k] ]_vars

\* A load with override replaced the value of a variable that existed before it.
C14_Witness ==
    \E i \in DOMAIN loads :
        /\ loads[i].state = "applied" /\ loads[i].override
        /\ "KEY" \in DOMAIN loads[i].before
        /\ loads[i].before["KEY"] = "original"
        /\ calls[i].result = Returned(BundleA)
        /\ env["KEY"] = BundleA["KEY"]

-----------------------------------------------------------------------------
(* C15 *)

\* C15: a load that fails, whatever the failure of its get(), changes no variable
\* of the environment, and the environment changes only in a step in which a load
\* whose get() returned a bundle applies it.
C15_NoPartialLoad ==
    [][ /\ \A i \in DOMAIN loads :
              (loads[i].state = "awaiting" /\ loads'[i].state = "failed")
                => env' = env
        /\ env' # env
             => \E i \in DOMAIN loads : Applied(i) /\ calls[i].result.kind = "ok" ]_vars

\* A load failed on a failure response after an earlier load had changed the
\* environment, and the environment is what it was when the failed load was called.
C15_Witness ==
    \E i \in DOMAIN loads : \E j \in DOMAIN loads :
        /\ j < i
        /\ loads[j].state = "applied" /\ loads[j].before # loads[i].before
        /\ loads[i].state = "failed"
        /\ calls[i].result.kind = "NotFoundError"
        /\ env = loads[i].before

-----------------------------------------------------------------------------
(* C16 *)

\* Call i completed in this step by throwing.
Failed(i) ==
    /\ i \in DOMAIN calls'
    /\ i \in DOMAIN calls => calls[i].pc # "done"
    /\ calls'[i].pc = "done"
    /\ calls'[i].result.kind # "ok"

\* C16: a step in which a get fails leaves the cache as it is, and a step that adds
\* an entry to the cache or changes one is a step in which a get returns the bundle
\* it fetched.
C16_FailureKeepsCache ==
    [][ /\ (\E i \in DOMAIN calls' : Failed(i)) => cache' = cache
        /\ (\E k \in DOMAIN cache' : k \notin DOMAIN cache \/ cache'[k] # cache[k])
             => \E i \in DOMAIN calls : Fetched(i) ]_vars

\* A noCache get for a cached pair failed on a failure response and the entry of
\* the pair still holds the bundle the earlier get returned.
C16_Witness ==
    \E j \in DOMAIN calls : \E i \in 1..(j - 1) :
        /\ SamePair(calls[i], calls[j])
        /\ calls[i].result.kind = "ok" /\ calls[i].live
        /\ calls[j].noCache /\ calls[j].hadEntry
        /\ calls[j].cause = "response" /\ calls[j].result.kind = "EzEnvError"
        /\ CacheKey(calls[j].project, calls[j].environment) \in DOMAIN cache
        /\ Returned(cache[CacheKey(calls[j].project, calls[j].environment)])
             = calls[i].result

-----------------------------------------------------------------------------
(* C17 *)

\* C17 (as claimed): a get or load call hands exactly one request to fetch() when
\* its inputs are valid and noCache is set or no get for its pair has succeeded
\* since the last clearCache(), and none otherwise; no other step hands a request
\* to fetch().
C17_Claim ==
    [][ /\ Started
             => Sent = IF /\ ValidCall(New)
                          /\ \/ New.noCache
                             \/ OkResults(New.project, New.environment) = {}
                       THEN 1 ELSE 0
        /\ ~Started => Sent = 0 ]_vars

-----------------------------------------------------------------------------
(* C18 *)

\* Call c is suspended on the network.
InFlight(c) == c.pc \in {"fetch", "json"}

\* C18 (as claimed): a get for a pair for which no get has succeeded since the last
\* clearCache(), started while another get for the pair is in flight, misses the
\* cache and hands its own request to fetch(), and the get in flight keeps its own;
\* and a get that returns its fetched bundle after another get for the pair has
\* returned one leaves its own bundle in the entry of the pair.
C18_Claim ==
    [][ /\ (/\ Started
            /\ ValidCall(New)
            /\ OkResults(New.project, New.environment) = {}
            /\ \E i \in DOMAIN calls : InFlight(calls[i]) /\ SamePair(calls[i], New))
             => /\ Sent = 1
                /\ New.pc = "fetch"
                /\ \A i \in DOMAIN calls : calls'[i] = calls[i]
        /\ \A i \in DOMAIN calls :
              (/\ Fetched(i)
               /\ \E j \in DOMAIN calls :
                     /\ j # i /\ SamePair(calls[i], calls[j])
                     /\ calls[j].cause = "response" /\ calls[j].live)
                => cache'[CacheKey(calls[i].project, calls[i].environment)]
                     = calls'[i].result.value[1] ]_vars

-----------------------------------------------------------------------------
(* C19 *)

\* Call i timed out in this step.
TimedOut(i) ==
    /\ i \in DOMAIN calls
    /\ calls[i].pc = "fetch"
    /\ calls'[i].cause = "timeout"

\* C19: the step in which a call times out changes no other call (its position,
\* its timer, its outcome), hands nothing to fetch() and leaves the cache as it is;
\* the call that timed out throws the timeout error.
C19_TimeoutIsLocal ==
    [][ \A i \in DOMAIN calls :
          TimedOut(i)
            => /\ \A j \in DOMAIN calls \ {i} : calls'[j] = calls[j]
               /\ calls'[i].result = Thrown(NewError("NetworkError", "Request timeout"))
               /\ requests' = requests
               /\ cache' = cache ]_vars

\* A call has timed out and another call, for the same pair, is still waiting for
\* its response with its timer armed.
C19_Witness ==
    \E i, j \in DOMAIN calls :
        /\ i # j /\ SamePair(calls[i], calls[j])
        /\ calls[i].cause = "timeout" /\ calls[i].pc = "done"
        /\ calls[j].pc = "fetch" /\ calls[j].timer = "armed"
        /\ calls[j].result = Pending

-----------------------------------------------------------------------------
(* C20 *)

\* C20 (as claimed): a call that is waiting on the network, for the response or for
\* the body of the response, has its timeout timer armed.
C20_Claim ==
    \A i \in DOMAIN calls :
        InFlight(calls[i]) => calls[i].timer = "armed"

-----------------------------------------------------------------------------
(* C21 *)

\* C21 (as claimed): every error a get or a load throws is of one of the five
\* classes of errors.ts, each an EzEnvError.
C21_Claim ==
    /\ \A i \in DOMAIN calls :
          calls[i].result.kind \notin {"ok", "pending"}
            => IsEzEnvError(calls[i].result.error)
    /\ \A i \in DOMAIN loads :
          loads[i].state = "failed" => IsEzEnvError(loads[i].error)

-----------------------------------------------------------------------------
(* C22 *)

\* C22 (as claimed): every value a get returns and every value in the cache is a
\* bundle, never undefined.
C22_Claim ==
    /\ \A i \in DOMAIN calls :
          calls[i].result.kind = "ok" => calls[i].result.value[1] # Undefined
    /\ \A k \in DOMAIN cache : cache[k] # Undefined

-----------------------------------------------------------------------------
(* C23 *)

\* The endpoint of the client: the one given to the constructor, the production
\* URL when none (or an empty one) was given.
EndpointGiven ==
    IF ctor.givenUrl = None \/ ctor.givenUrl[1] = "" THEN "https://ezenv.dev"
    ELSE ctor.givenUrl[1]

-----------------------------------------------------------------------------
(* C24 *)

\* The pairs for which a get has succeeded since the last clearCache().
CachedPairs == {pe \in Pairs : OkResults(pe[1], pe[2]) # {}}

\* C24: in a step that is not a clearCache() no entry leaves the cache, no pair
\* stops being cached and the size of the cache does not decrease.
C24_NoEviction ==
    [][ ~ClearCache
          => /\ DOMAIN cache \subseteq DOMAIN cache'
             /\ CacheSize(cache') >= CacheSize(cache)
             /\ CachedPairs \subseteq CachedPairs' ]_vars

\* A noCache get for a cached pair has failed, and getCacheSize() then returned 1:
\* the entry of the pair is still there.
C24_Witness ==
    /\ lastSize = Some(1)
    /\ \E j \in DOMAIN calls : \E i \in 1..(j - 1) :
          /\ calls[i].live /\ SamePair(calls[i], calls[j])
          /\ calls[j].noCache /\ calls[j].hadEntry
          /\ calls[j].pc = "done" /\ calls[j].result.kind = "NetworkError"

-----------------------------------------------------------------------------
(* C25 *)

\* A clearCache() called in this state would change the cache, the client, the
\* process environment, a request or a call.
ClearWouldChange ==
    ENABLED (/\ ClearCache
             /\ \/ cache' # cache
                \/ ctor' # ctor
                \/ env' # env
                \/ requests' # requests
                \/ loads' # loads
                \/ \E j \in DOMAIN calls :
                      [calls'[j] EXCEPT !.live = calls[j].live] # calls[j])

\* C25: clearCache() leaves the cache empty whatever it held, changes neither the
\* client (credential, endpoint), nor the process environment, nor any request or
\* call, and a second clearCache() right after it changes nothing.
C25_ClearIdempotent ==
    [][ ClearCache
          => /\ cache' = EmptyMap
             /\ CacheSize(cache') = 0
             /\ ctor' = ctor
             /\ env' = env
             /\ requests' = requests
             /\ loads' = loads
             /\ \A j \in DOMAIN calls :
                   [calls'[j] EXCEPT !.live = calls[j].live] = calls[j]
             /\ ~ClearWouldChange' ]_vars

\* The cache has been cleared after a load put an entry in it and set variables of
\* the process environment, which are still set.
C25_Witness ==
    /\ cache = EmptyMap
    /\ \E i \in DOMAIN loads :
          /\ loads[i].state = "applied"
          /\ ~calls[i].live
          /\ env # loads[i].before

-----------------------------------------------------------------------------
(* C26 *)

\* C26 (as claimed): a load that has settled failed exactly when its get() failed,
\* with the error of the get(); a load whose get() returned has applied the value.
C26_Claim ==
    \A i \in DOMAIN loads :
        loads[i].state # "awaiting"
          => /\ loads[i].state = "failed" <=> calls[i].result.kind # "ok"
             /\ loads[i].state = "failed" => loads[i].error = calls[i].result.error

-----------------------------------------------------------------------------
(* C30 *)

\* C30 (as claimed): the delay of the timer of a call that goes to the network is
\* the timeout option when the caller gave one, whatever its value, and 30000
\* when the caller gave none.
C30_Claim ==
    \A i \in DOMAIN calls :
        calls[i].cause \notin {"validation", "cache"}
          => calls[i].delay = IF calls[i].timeout = None THEN 30000
                              ELSE calls[i].timeout[1]

-----------------------------------------------------------------------------
(* C27 *)

\* A step in which loadFromFile() is called
FileCall == boot.fn = "none" /\ boot'.fn = "loadFromFile"

\* The file the call of loadFromFile() found at its path
BootFile == boot.source[1].file

\* The files of the model in which EZENV_API_KEY, EZENV_PROJECT or
\* EZENV_ENVIRONMENT is absent or empty
IncompleteContents ==
    {FileCommentedKey, FileEmptyKey, FileNoEquals, FileBlankProject,
     FileNoEnvironment, FileEmptyEnvironment, FileEmpty}

\* The file is missing, cannot be read, or lacks a required field
Unusable(file) ==
    ~file.exists \/ ~file.readable \/ file.content \in IncompleteContents

\* C27: a call of loadFromFile() on a file that is missing, that cannot be read, or
\* in which EZENV_API_KEY, EZENV_PROJECT or EZENV_ENVIRONMENT is absent or empty
\* fails with ValidationError; no client is constructed, no call is made on a
\* client, no request is issued and the process environment is unchanged.
C27_UnusableFile ==
    [][(FileCall /\ Unusable(BootFile'))
         => /\ boot'.state = "failed"
            /\ boot'.error.class = "ValidationError"
            /\ ctor' = CtorInit
            /\ calls' = calls /\ requests' = requests /\ loads' = loads
            /\ env' = env]_vars

\* loadFromFile() has failed on a file whose EZENV_ENVIRONMENT is the empty
\* quoted string, with a variable in the process environment: no client, no
\* request.
C27_Witness ==
    /\ boot.fn = "loadFromFile" /\ boot.state = "failed"
    /\ BootFile.exists /\ BootFile.readable
    /\ BootFile.content = FileEmptyEnvironment
    /\ boot.error.message = "EZENV_ENVIRONMENT not found in .env.ezenv"
    /\ ctor = CtorInit /\ requests = << >>
    /\ env = [KEY |-> "original"]

-----------------------------------------------------------------------------
(* C28 *)

\* The files of the model that name all required fields, with the fields they name
NamedIn ==
    (FileMinimal :> [credential |-> "ezenv_k1", endpoint |-> None,
                     project |-> "a", environment |-> "c"])
    @@ (FileQuoted :> [credential |-> "ezenv_k1",
                       endpoint |-> Some("http://localhost:3000"),
                       project |-> "a", environment |-> "c"])
    @@ (FileOddLines :> [credential |-> "ezenv_k=1", endpoint |-> None,
                         project |-> "a", environment |-> "c"])
    @@ (FileForeignKey :> [credential |-> "sk_live_1", endpoint |-> None,
                           project |-> "a", environment |-> "c"])

\* A step in which loadFromFile() is called on a readable file that names all
\* required fields
CompleteFileCall ==
    /\ FileCall
    /\ BootFile'.exists /\ BootFile'.readable
    /\ BootFile'.content \in DOMAIN NamedIn

\* The step constructs a client with the credential and endpoint of `named` and
\* calls load once, without options, with the project and environment of `named`
ConstructsAndLoads(named) ==
    /\ ctor'.state = "ok"
    /\ ctor'.apiKey = named.credential
    /\ ctor'.baseUrl = IF named.endpoint = None THEN DefaultBaseUrl
                       ELSE named.endpoint[1]
    /\ Len(calls') = Len(calls) + 1
    /\ DOMAIN loads' = DOMAIN loads \cup {Len(calls')}
    /\ calls'[Len(calls')].project = named.project
    /\ calls'[Len(calls')].environment = named.environment
    /\ ~calls'[Len(calls')].noCache
    /\ calls'[Len(calls')].timeout = None
    /\ ~loads'[Len(calls')].override

\* The statement for every file that names all required fields
C28_Original ==
    [][CompleteFileCall => ConstructsAndLoads(NamedIn[BootFile'.content])]_vars

\* C28: when the file names all required fields and its credential starts with
\* "ezenv_", loadFromFile constructs one client from the file's credential and
\* optional endpoint and calls load once with the file's project and environment
\* and no options; the fields are read from key=value lines, blank lines, lines
\* without '=' and lines beginning with '#' contribute no field, and surrounding
\* single or double quotes are stripped from values.  When the credential does not
\* start with "ezenv_" the constructor is called with it and its ValidationError
\* is the failure of loadFromFile: no client, no load, no request.
C28_FromFile ==
    [][CompleteFileCall =>
         LET named == NamedIn[BootFile'.content] IN
           IF StartsWith(named.credential, "ezenv_")
           THEN ConstructsAndLoads(named) /\ boot'.state = "loading"
           ELSE /\ ctor'.state = "thrown" /\ ctor'.given = named.credential
                /\ boot'.state = "failed"
                /\ boot'.error = NewError("ValidationError", "Invalid API key format")
                /\ calls' = calls /\ requests' = requests /\ loads' = loads
                /\ env' = env]_vars

\* loadFromFile() on the file with comments, blank lines and quoted values: the
\* client has the file's credential and endpoint, the one request went to that
\* endpoint for the file's project and environment, and the bundle is applied.
C28_Witness ==
    /\ boot.fn = "loadFromFile" /\ BootFile.content = FileQuoted
    /\ ctor.state = "ok" /\ ctor.apiKey = "ezenv_k1"
    /\ ctor.baseUrl = "http://localhost:3000"
    /\ Len(calls) = 1 /\ calls[1].project = "a" /\ calls[1].environment = "c"
    /\ Len(requests) = 1
    /\ 1 \in DOMAIN loads /\ loads[1].state = "applied"
    /\ env = BundleA

-----------------------------------------------------------------------------
(* C29 *)

\* A step in which fromEnv() is called
EnvCall == boot.fn # "fromEnv" /\ boot'.fn = "fromEnv"

\* The variable is set to a non-empty value
IsSet(e, name) == name \in DOMAIN e /\ e[name] # ""

\* The step constructs a client with the credential and endpoint of the variables
\* of the environment
ConstructsFromEnv ==
    /\ ctor'.state = "ok"
    /\ ctor'.apiKey = env["EZENV_API_KEY"]
    /\ ctor'.baseUrl = IF IsSet(env, "EZENV_BASE_URL") THEN env["EZENV_BASE_URL"]
                       ELSE DefaultBaseUrl
    /\ boot'.state = "returned"

\* The step fails with ValidationError
FailsValidation == boot'.state = "failed" /\ boot'.error.class = "ValidationError"

\* The step calls nothing on a client, issues no request and leaves the
\* environment and the cache alone
NoEffect ==
    /\ calls' = calls /\ requests' = requests /\ loads' = loads
    /\ env' = env /\ cache' = cache

\* The statement for every environment
C29_Original ==
    [][EnvCall =>
         /\ IF IsSet(env, "EZENV_API_KEY") THEN ConstructsFromEnv
            ELSE FailsValidation /\ ctor' = ctor
         /\ NoEffect]_vars

\* C29: fromEnv constructs a client whose credential and endpoint are the values
\* of EZENV_API_KEY and EZENV_BASE_URL at the time of the call (the default
\* endpoint when EZENV_BASE_URL is unset or empty) when EZENV_API_KEY starts with
\* "ezenv_"; it fails with ValidationError, constructing nothing, whenever
\* EZENV_API_KEY is unset or empty, and with the ValidationError of the
\* constructor when the value does not start with "ezenv_"; it issues no network
\* request and does not modify the environment.
C29_FromEnv ==
    [][EnvCall =>
         /\ IF ~IsSet(env, "EZENV_API_KEY")
            THEN FailsValidation /\ ctor' = ctor
            ELSE IF StartsWith(env["EZENV_API_KEY"], "ezenv_")
            THEN ConstructsFromEnv
            ELSE FailsValidation /\ ctor'.state = "thrown"
         /\ NoEffect]_vars

\* fromEnv() has returned a client after the host program set both variables: the
\* client has their values, nothing was requested, the environment is as it was.
C29_Witness ==
    /\ boot.fn = "fromEnv" /\ boot.state = "returned"
    /\ ctor.state = "ok" /\ ctor.apiKey = "ezenv_env"
    /\ ctor.baseUrl = "http://localhost:3000"
    /\ env = [KEY |-> "original", EZENV_API_KEY |-> "ezenv_env",
              EZENV_BASE_URL |-> "http://localhost:3000"]
    /\ boot.before = env
    /\ requests = << >> /\ calls = << >>

-----------------------------------------------------------------------------
(* C31 *)

\* C31: once a get call has completed, on every path, the timeout timer it armed
\* is no longer pending: no completed call has a timer that is still armed.
C31_Claim ==
    \A i \in DOMAIN calls : calls[i].pc = "done" => calls[i].timer # "armed"

-----------------------------------------------------------------------------
(* C32 *)

\* C32: the cache entry of a pair never regresses to staler data: when the entry
\* holds the bundle fetched by a call for the pair, no step replaces it by a
\* different bundle fetched by a call for the pair that was issued earlier.
C32_Claim ==
    [][\A k \in DOMAIN writer \cap DOMAIN writer' :
          (SamePair(calls[writer[k]], calls[writer'[k]]) /\ writer'[k] < writer[k])
             => cache'[k] = cache[k]]_vars

-----------------------------------------------------------------------------
(* C33 *)

\* C33: a load changes only variables whose keys are in the fetched bundle: in the
\* step in which a load applies its bundle, with or without override, no variable
\* is deleted and every variable whose key is not in the bundle has the same
\* value, or the same absence, as before; no other step of a load changes the
\* environment.
C33_Frame ==
    [][ /\ \A i \in DOMAIN loads :
             Applied(i)
               => /\ DOMAIN env \subseteq DOMAIN env'
                  /\ \A k \in DOMAIN env' \ DOMAIN BundleOf(i) :
                        k \in DOMAIN env /\ env'[k] = env[k]
        /\ env' # env => \E i \in DOMAIN loads : Applied(i) ]_vars

\* A load with override has applied the bundle with KEY and NEW_VAR to an
\* environment that had KEY and PATH: KEY is replaced, NEW_VAR is added, PATH is
\* as it was.
C33_Witness ==
    \E i \in DOMAIN loads :
        /\ loads[i].state = "applied" /\ loads[i].override
        /\ loads[i].before = [KEY |-> "", PATH |-> "/usr/bin"]
        /\ calls[i].result = Returned(BundleB)
        /\ env = [KEY |-> "rotated", NEW_VAR |-> "", PATH |-> "/usr/bin"]

-----------------------------------------------------------------------------
(* C34 *)

\* Load j, served from the cache, follows the applied load i for the same pair,
\* with the same bundle and the same override, and the environment is still the
\* one load i left.
Repeats(i, j) ==
    /\ i < j
    /\ loads[i].state = "applied"
    /\ SamePair(calls[i], calls[j])
    /\ calls[j].cause = "cache"
    /\ calls[j].result = calls[i].result
    /\ loads[j].override = loads[i].override
    /\ env = loads[i].after

\* C34: load is idempotent on a cached pair: when a load served from the cache
\* applies the bundle a load for the same pair applied just before it, with the
\* same override, the environment after it is the environment after the first.
C34_Idempotent ==
    [][ \A i, j \in DOMAIN loads :
          (Applied(j) /\ Repeats(i, j)) => env' = loads[i].after ]_vars

\* Two loads with override for the same pair have applied the same bundle to an
\* environment that had another value for KEY, the second from the cache.
C34_Witness ==
    \E i, j \in DOMAIN loads :
        /\ i < j
        /\ loads[i].state = "applied" /\ loads[j].state = "applied"
        /\ loads[i].override /\ loads[j].override
        /\ SamePair(calls[i], calls[j])
        /\ calls[j].cause = "cache"
        /\ calls[i].result = Returned(BundleA) /\ calls[j].result = Returned(BundleA)
        /\ loads[i].before = [KEY |-> "original"]
        /\ loads[j].before = loads[i].after
        /\ env = loads[i].after /\ env = BundleA

-----------------------------------------------------------------------------
(* C35 *)

\* The load() that loadFromFile() called, the first call on the new client,
\* applies its bundle in this step.
FileApplied(i) ==
    /\ boot.fn = "loadFromFile" /\ boot.state = "loading"
    /\ \A j \in DOMAIN calls : i <= j
    /\ Applied(i)

\* C35: loadFromFile never overwrites an environment variable: it calls load
\* without options, and when that load applies its bundle every variable that
\* exists keeps its value and only keys of the bundle that were unset are added,
\* with the fetched value; when no other load was made on the client, the
\* variables that exist then are those that existed before the call.
C35_NoOverwrite ==
    [][ \A i \in DOMAIN loads :
          FileApplied(i)
            => /\ ~loads[i].override /\ ~calls[i].noCache /\ calls[i].timeout = None
               /\ \A k \in DOMAIN env : k \in DOMAIN env' /\ env'[k] = env[k]
               /\ \A k \in DOMAIN env' \ DOMAIN env :
                     k \in DOMAIN BundleOf(i) /\ env'[k] = BundleOf(i)[k]
               /\ \A k \in DOMAIN BundleOf(i) : k \in DOMAIN env'
               /\ DOMAIN loads = {i} => env = boot.before ]_vars

\* loadFromFile() has succeeded in an environment that had KEY: the bundle had KEY
\* and NEW_VAR, KEY kept its value and NEW_VAR was added.
C35_Witness ==
    /\ boot.fn = "loadFromFile" /\ boot.state = "loading"
    /\ boot.before = [KEY |-> "original"]
    /\ 1 \in DOMAIN loads /\ loads[1].state = "applied"
    /\ calls[1].result = Returned(BundleB)
    /\ env = [KEY |-> "original", NEW_VAR |-> ""]

====
